---- MODULE Spec2Model ----
(***************************************************************************)
(* EMODnet Seabed Habitats viewer (app_new.py): the capability resolver    *)
(* get_available_layers and the Flask routes that use the WMS endpoint.    *)
(*                                                                         *)
(* A Python str is a sequence of one-character strings.  Python's None is  *)
(* the value None below, which is no str.  An ElementTree element is a     *)
(* record [tag, text, children].                                           *)
(***************************************************************************)
EXTENDS Naturals, Sequences, FiniteSets, TLC

\* Python's None, as the value of a str-or-None expression.
None == <<"<None>">>

\* ---------------------------------------------------------------- constants

WMS_BASE_URL ==
    <<"h","t","t","p","s",":","/","/","o","w","s",".","e","m","o","d","n","e","t","-","s","e","a","b","e","d","h","a","b","i","t","a","t","s",".","e","u","/","g","e","o","s","e","r","v","e","r","/","e","m","o","d","n","e","t","_","v","i","e","w","/","w","m","s">>
WMS_VERSION ==
    <<"1",".","3",".","0">>
EMODNET_LAYERS ==
    <<
      [name |->
         <<"a","l","l","_","e","u","s","m","2","0","2","1">>,
       title |->
         <<"E","U","S","e","a","M","a","p"," ","2","0","2","1"," ","-"," ","A","l","l"," ","H","a","b","i","t","a","t","s">>,
       description |->
         <<"B","r","o","a","d","-","s","c","a","l","e"," ","s","e","a","b","e","d"," ","h","a","b","i","t","a","t"," ","m","a","p"," ","f","o","r"," ","E","u","r","o","p","e">>],
      [name |->
         <<"b","e","_","e","u","s","m","2","0","2","1">>,
       title |->
         <<"E","U","S","e","a","M","a","p"," ","2","0","2","1"," ","-"," ","B","e","n","t","h","i","c"," ","H","a","b","i","t","a","t","s">>,
       description |->
         <<"B","e","n","t","h","i","c"," ","b","r","o","a","d","-","s","c","a","l","e"," ","h","a","b","i","t","a","t"," ","m","a","p">>],
      [name |->
         <<"o","s","p","a","r","_","t","h","r","e","a","t","e","n","e","d">>,
       title |->
         <<"O","S","P","A","R"," ","T","h","r","e","a","t","e","n","e","d"," ","H","a","b","i","t","a","t","s">>,
       description |->
         <<"O","S","P","A","R"," ","t","h","r","e","a","t","e","n","e","d"," ","a","n","d","/","o","r"," ","d","e","c","l","i","n","i","n","g"," ","h","a","b","i","t","a","t","s">>],
      [name |->
         <<"s","u","b","s","t","r","a","t","e">>,
       title |->
         <<"S","e","a","b","e","d"," ","S","u","b","s","t","r","a","t","e">>,
       description |->
         <<"S","e","a","b","e","d"," ","s","u","b","s","t","r","a","t","e"," ","t","y","p","e","s">>],
      [name |->
         <<"c","o","n","f","i","d","e","n","c","e">>,
       title |->
         <<"C","o","n","f","i","d","e","n","c","e"," ","A","s","s","e","s","s","m","e","n","t">>,
       description |->
         <<"C","o","n","f","i","d","e","n","c","e"," ","i","n"," ","h","a","b","i","t","a","t"," ","p","r","e","d","i","c","t","i","o","n","s">>],
      [name |->
         <<"a","n","n","e","x","i","M","a","p","s","_","a","l","l">>,
       title |->
         <<"A","n","n","e","x"," ","I"," ","H","a","b","i","t","a","t","s">>,
       description |->
         <<"H","a","b","i","t","a","t","s"," ","D","i","r","e","c","t","i","v","e"," ","A","n","n","e","x"," ","I"," ","h","a","b","i","t","a","t"," ","t","y","p","e","s">>]
    >>

\* The slice bound of layers[:20].
MaxLayers == 20

\* Tag names the resolver looks up.
TagLayer == <<"L","a","y","e","r">>
TagName == <<"N","a","m","e">>
TagTitle == <<"T","i","t","l","e">>
TagAbstract == <<"A","b","s","t","r","a","c","t">>

\* ------------------------------------------------------------ str and list

\* c in s, for a one-character c.
Contains(s, c) == \E i \in 1..Len(s) : s[i] = c

\* Index of the first c in s at or after position i; Len(s) + 1 if there is none.
RECURSIVE IndexFrom(_, _, _)
IndexFrom(s, c, i) ==
    IF i > Len(s) THEN Len(s) + 1
    ELSE IF s[i] = c THEN i
    ELSE IndexFrom(s, c, i + 1)

\* s.split(c)[1], for s that contains c: the text between the first c and the next.
SplitSecond(s, c) ==
    LET first == IndexFrom(s, c, 1)
        next == IndexFrom(s, c, first + 1)
    IN  SubSeq(s, first + 1, next - 1)

\* Truthiness of a str-or-None value: None and '' are false.
Truthy(t) == t # None /\ t # <<>>

\* xs[:n]
Take(xs, n) == SubSeq(xs, 1, IF Len(xs) < n THEN Len(xs) ELSE n)

\* ------------------------------------------------------------ ElementTree

Elem(tag, text, children) == [tag |-> tag, text |-> text, children |-> children]

\* The result of Element.find when nothing matches (Python's None).
NoElem == [tag |-> None, text |-> None, children |-> <<>>]

\* elem.tag after the loop body of lines 66-67.
StripTag(tag) == IF Contains(tag, "}") THEN SplitSecond(tag, "}") ELSE tag

\* The tree after 'for elem in root.iter(): ...' has rewritten every tag.
RECURSIVE StripNamespaces(_)
StripNamespaces(e) ==
    [tag |-> StripTag(e.tag),
     text |-> e.text,
     children |-> [i \in 1..Len(e.children) |-> StripNamespaces(e.children[i])]]

\* The elements below the i-th and later children, in document order.
RECURSIVE IterFrom(_, _)
IterFrom(children, i) ==
    IF i > Len(children) THEN <<>>
    ELSE <<children[i]>> \o IterFrom(children[i].children, 1)
                         \o IterFrom(children, i + 1)

\* findall cut to the first 20 matches, so that the slice comes before the filter.
FindAll_SlicedFirst(root, tag) ==
    LET Match(e) == e.tag = tag
    IN  Take(SelectSeq(IterFrom(root.children, 1), Match), MaxLayers)

\* root.findall('.//' + tag): all descendants with that tag, in document order.
FindAll(root, tag) ==
    LET Match(e) == e.tag = tag
    IN  SelectSeq(IterFrom(root.children, 1), Match)

\* elem.find(tag): the first direct child with that tag, or None.
Find(elem, tag) ==
    LET Match(e) == e.tag = tag
        found == SelectSeq(elem.children, Match)
    IN  IF found = <<>> THEN NoElem ELSE Head(found)

\* ------------------------------------------------------------ the resolver

\* The title without the test of title_elem.text.
LayerTitle_AnyText(name_elem, title_elem) ==
    IF title_elem # NoElem THEN title_elem.text ELSE name_elem.text

\* The dict appended for one Layer element (lines 78-82).
LayerTitle(name_elem, title_elem) ==
    IF title_elem # NoElem /\ Truthy(title_elem.text)
    THEN title_elem.text ELSE name_elem.text

LayerDescription(abstract_elem) ==
    IF abstract_elem # NoElem THEN abstract_elem.text ELSE <<>>

\* A kept layer without the test for ':'.
LayerKept_Qualified(name_elem) ==
    /\ name_elem # NoElem
    /\ Truthy(name_elem.text)

\* Whether a Layer element is kept (lines 75 and 77).
LayerKept(name_elem) ==
    /\ name_elem # NoElem
    /\ Truthy(name_elem.text)
    /\ ~Contains(name_elem.text, ":")

\* The list 'layers' after the loop of lines 69-82.
RECURSIVE CollectLayers(_, _)
CollectLayers(found, i) ==
    IF i > Len(found) THEN <<>>
    ELSE LET layer == found[i]
             name_elem == Find(layer, TagName)
             title_elem == Find(layer, TagTitle)
             abstract_elem == Find(layer, TagAbstract)
         IN  (IF LayerKept(name_elem)
              THEN << [name |-> name_elem.text,
                       title |-> LayerTitle(name_elem, title_elem),
                       description |-> LayerDescription(abstract_elem)] >>
              ELSE <<>>)
             \o CollectLayers(found, i + 1)

\* Line 85 without the slice, and without the fallback.
ReturnLayers_Unsliced(layers) ==
    IF layers # <<>> THEN layers ELSE EMODNET_LAYERS
ReturnLayers_NoFallback(layers) == Take(layers, MaxLayers)

\* Line 85: return layers[:20] if layers else EMODNET_LAYERS
ReturnLayers(layers) ==
    IF layers # <<>> THEN Take(layers, MaxLayers) ELSE EMODNET_LAYERS

\* How a block of code ends: it returns value, it raises, or it runs off its end.
\* gets counts the requests.get calls it made.
Returned(v, n) == [kind |-> "return", value |-> v, gets |-> n]
Raised(n) == [kind |-> "raise", value |-> <<>>, gets |-> n]
FellThrough(n) == [kind |-> "end", value |-> <<>>, gets |-> n]

\* The try block of get_available_layers (lines 53-85), given what the one
\* requests.get call does.
TryBlock(outcome) ==
    IF outcome.kind = "raise" THEN Raised(1)
    ELSE IF outcome.status_code = 200
    THEN IF outcome.content.kind # "xml" THEN Raised(1)
         ELSE LET root == StripNamespaces(outcome.content.root)
              IN  Returned(ReturnLayers(CollectLayers(FindAll(root, TagLayer), 1)), 1)
    ELSE FellThrough(1)

\* get_available_layers without the except clause, and with a second attempt
\* after a failed one.
get_available_layers_Unguarded(outcome) ==
    LET r == TryBlock(outcome)
    IN  IF r.kind = "end" THEN Returned(EMODNET_LAYERS, r.gets) ELSE r
get_available_layers_Retrying(outcome) ==
    LET r == TryBlock(outcome)
    IN  IF r.kind = "return" THEN r
        ELSE Returned(EMODNET_LAYERS, r.gets + TryBlock(outcome).gets)

\* get_available_layers: 'except Exception' swallows what the try block raises,
\* and line 90 returns the fallback.
get_available_layers(outcome) ==
    LET r == TryBlock(outcome)
    IN  IF r.kind = "return" THEN r ELSE Returned(EMODNET_LAYERS, r.gets)

\* ------------------------------------------------------------ the WMS endpoint

\* What the upstream server publishes for one layer: Name, Title and Abstract
\* are each Absent (no such child element), None (the element has no text)
\* or a str.
Absent == <<"<absent>">>
Entry(n, t, a) == [Name |-> n, Title |-> t, Abstract |-> a]

\* A tag as ElementTree.fromstring gives it: '{uri}local' under a namespace.
QName(ns, local) == IF ns = <<>> THEN local ELSE <<"{">> \o ns \o <<"}">> \o local

TextChild(ns, local, v) ==
    IF v = Absent THEN <<>> ELSE << Elem(QName(ns, local), v, <<>>) >>

\* Every published layer carries a default Style, which has a Name and a Title
\* of its own.
StyleElem(ns) ==
    Elem(QName(ns, <<"S","t","y","l","e">>), None,
         << Elem(QName(ns, TagName), <<"s">>, <<>>),
            Elem(QName(ns, TagTitle), <<"S">>, <<>>) >>)

LayerElem(ns, entry, below) ==
    Elem(QName(ns, TagLayer), None,
         TextChild(ns, TagName, entry.Name)
         \o TextChild(ns, TagTitle, entry.Title)
         \o TextChild(ns, TagAbstract, entry.Abstract)
         \o below)

\* A capabilities document: Service (with its own Name and Title), then
\* Capability holding the container layer, which holds the other layers.
Document(ns, entries) ==
    LET inner == [i \in 1..(Len(entries) - 1) |->
                     LayerElem(ns, entries[i + 1], << StyleElem(ns) >>)]
    IN  Elem(QName(ns, <<"W","M","S","_","C","a","p","a","b","i","l","i","t","i","e","s">>), None,
             << Elem(QName(ns, <<"S","e","r","v","i","c","e">>), None,
                     << Elem(QName(ns, TagName), <<"W","M","S">>, <<>>),
                        Elem(QName(ns, TagTitle), <<"S">>, <<>>) >>),
                Elem(QName(ns, <<"C","a","p","a","b","i","l","i","t","y">>), None,
                     << LayerElem(ns, entries[1], inner) >>) >>)

Xml(root) == [kind |-> "xml", root |-> root]
Garbage == [kind |-> "garbage", root |-> NoElem]

\* What one requests.get call does: it raises, or it returns a response.
RaisesOutcome(msg) ==
    [kind |-> "raise", message |-> msg, status_code |-> 0, content |-> Garbage]
ResponseOutcome(status, content) ==
    [kind |-> "response", message |-> <<>>, status_code |-> status, content |-> content]

\* ------------------------------------------------------------ inputs

\* The longest run of equal layers in a published document.
MaxBulk == 21

Namespaces == { <<>>, <<"w">> }
NameValues == { Absent, None, <<"a">>, <<"b">>, <<"e",":","a">> }
TitleValues == { Absent, None, <<"T">> }
AbstractValues == { Absent, None, <<"D">> }

FullEntries ==
    { Entry(n, t, a) : n \in NameValues, t \in TitleValues, a \in AbstractValues }
ContainerEntries ==
    { Entry(Absent, <<"T">>, Absent), Entry(<<"c">>, Absent, None),
      Entry(<<"e",":","c">>, <<"T">>, Absent) }
BulkEntries ==
    { Entry(<<"a">>, Absent, Absent), Entry(<<"e",":","a">>, <<"T">>, <<"D">>) }
TailEntries ==
    { Entry(<<"b">>, None, <<"D">>), Entry(<<"e",":","b">>, Absent, Absent) }
HeadEntries ==
    { Entry(<<"b">>, <<"T">>, None), Entry(<<"e",":","a">>, Absent, Absent) }
ShortBulks == { 0, 1 }
LongBulks == { k \in 1..MaxBulk : k + 1 >= MaxLayers }

Repeat(e, k) == [i \in 1..k |-> e]
Optional(S) == { <<>> } \cup { <<e>> : e \in S }

\* The layers of a published document, in document order: the container, at
\* most one layer, a run of equal layers, at most one more layer.  The layer
\* before a short run has any shape.
Lists(heads, sizes) ==
    { <<c>> \o h \o Repeat(b, k) \o t :
        c \in ContainerEntries, h \in Optional(heads),
        b \in BulkEntries, k \in sizes, t \in Optional(TailEntries) }
PublishedLists ==
    Lists(FullEntries, ShortBulks) \cup Lists(HeadEntries, LongBulks)
SmallLists ==
    { <<c>> \o t : c \in ContainerEntries, t \in Optional(TailEntries) }

RouteLists ==
    { << Entry(Absent, <<"T">>, Absent) >>,
      << Entry(Absent, <<"T">>, Absent), Entry(<<"b">>, None, <<"D">>) >> }

Messages ==
    { <<"t","i","m","e","d"," ","o","u","t">>,
      <<"r","e","f","u","s","e","d">> }

\* The endpoint answers 200 with the document it publishes.
Healthy(ns, p) == ResponseOutcome(200, Xml(Document(ns, p)))

\* The endpoint fails: the call raises, the status is not 200, or the body is
\* no XML.
Failing(ns, p) ==
    { RaisesOutcome(m) : m \in Messages }
    \cup { ResponseOutcome(s, c) :
             s \in { 404, 500 }, c \in { Garbage, Xml(Document(ns, p)) } }
    \cup { ResponseOutcome(200, Garbage) }

\* ------------------------------------------------------------ state

VARIABLES
    upstream,     \* what requests.get on the WMS endpoint does
    published,    \* the layers the endpoint publishes, in document order
    request,      \* the last request handled
    result,       \* how its get_available_layers call ended, if it made one
    outbound,     \* the outbound calls it made
    response,     \* the response it got
    legend_seen   \* layer name -> the legend URLs returned for it, oldest first

vars == <<upstream, published, request, result, outbound, response, legend_seen>>

\* The one outbound call the code makes (lines 53-58 and 474-480).
GetCapabilities ==
    [url |-> WMS_BASE_URL, service |-> "WMS", version |-> WMS_VERSION,
     request |-> "GetCapabilities", timeout |-> 10]

NotCalled == [kind |-> "none", value |-> <<>>, gets |-> 0]
NoRequest == [route |-> "none", layer_name |-> <<>>]
Request(route) == [route |-> route, layer_name |-> <<>>]
NoContent == [kind |-> "none", root |-> NoElem]

Response(status, ctype) ==
    [status |-> status, content_type |-> ctype, layers |-> <<>>,
     content |-> NoContent, error |-> None, legend_url |-> None]
NoResponse == Response(0, "none")

\* The most legend requests logged for one layer name.
MaxLegendCalls == 2

LegendNames == { EMODNET_LAYERS[1].name, <<"e",":","a","&","b","/","c">> }

Idle ==
    /\ request = NoRequest
    /\ result = NotCalled
    /\ outbound = <<>>
    /\ response = NoResponse
    /\ legend_seen = [n \in LegendNames |-> <<>>]

Init ==
    /\ \E ns \in Namespaces :
         \/ \E p \in PublishedLists :
              published = p /\ upstream = Healthy(ns, p)
         \/ \E p \in SmallLists :
              published = p /\ upstream \in Failing(ns, p)
    /\ Idle

InitRoutes ==
    /\ \E ns \in Namespaces : \E p \in RouteLists :
         published = p /\ upstream \in { Healthy(ns, p) } \cup Failing(ns, p)
    /\ Idle

\* ------------------------------------------------------------ routes

\* Every requests.get of the resolver is the GetCapabilities call.
Calls(n) == [i \in 1..n |-> GetCapabilities]

\* GET / (lines 92-464): the page is rendered with the resolver's layers.
index ==
    LET r == get_available_layers(upstream)
    IN  /\ request' = Request("/")
        /\ result' = r
        /\ outbound' = Calls(r.gets)
        /\ response' =
             IF r.kind = "return"
             THEN [Response(200, "text/html") EXCEPT !.layers = r.value]
             ELSE Response(500, "text/html")
        /\ UNCHANGED <<upstream, published, legend_seen>>

\* GET /api/layers (lines 466-469)
api_layers ==
    LET r == get_available_layers(upstream)
    IN  /\ request' = Request("/api/layers")
        /\ result' = r
        /\ outbound' = Calls(r.gets)
        /\ response' =
             IF r.kind = "return"
             THEN [Response(200, "application/json") EXCEPT !.layers = r.value]
             ELSE Response(500, "text/html")
        /\ UNCHANGED <<upstream, published, legend_seen>>

\* The body of api_capabilities (lines 479-483).
CapabilitiesResponse(outcome) ==
    IF outcome.kind = "raise"
    THEN [Response(500, "application/json") EXCEPT !.error = outcome.message]
    ELSE [Response(200, "text/xml") EXCEPT !.content = outcome.content]

\* GET /api/capabilities (lines 471-483)
api_capabilities ==
    /\ request' = Request("/api/capabilities")
    /\ result' = NotCalled
    /\ outbound' = Calls(1)
    /\ response' = CapabilitiesResponse(upstream)
    /\ UNCHANGED <<upstream, published, legend_seen>>

\* The legend URL with the version of the capabilities request in it.
LegendUrl_ServiceVersion(layer_name) ==
    WMS_BASE_URL \o <<"?">>
    \o <<"s","e","r","v","i","c","e","=","W","M","S","&","v","e","r","s","i","o","n","=">>
    \o WMS_VERSION
    \o <<"&","r","e","q","u","e","s","t","=","G","e","t","L","e","g","e","n","d","G","r","a","p","h","i","c","&">>
    \o <<"l","a","y","e","r","=">> \o layer_name
    \o <<"&","f","o","r","m","a","t","=","i","m","a","g","e","/","p","n","g">>

\* The f-string of lines 488-492.
LegendUrl(layer_name) ==
    WMS_BASE_URL \o <<"?">>
    \o <<"s","e","r","v","i","c","e","=","W","M","S","&","v","e","r","s","i","o","n","=","1",".","1",".","0","&","r","e","q","u","e","s","t","=","G","e","t","L","e","g","e","n","d","G","r","a","p","h","i","c","&">>
    \o <<"l","a","y","e","r","=">> \o layer_name
    \o <<"&","f","o","r","m","a","t","=","i","m","a","g","e","/","p","n","g">>

\* GET /api/legend/<path:layer_name> (lines 485-493).  Each logged URL comes
\* with whether another request was handled since the last one for that name.
api_legend ==
    \E layer_name \in LegendNames :
        LET legend_url == LegendUrl(layer_name)
            apart == request # [route |-> "/api/legend", layer_name |-> layer_name]
        IN  /\ Len(legend_seen[layer_name]) < MaxLegendCalls
            /\ request' = [route |-> "/api/legend", layer_name |-> layer_name]
            /\ result' = NotCalled
            /\ outbound' = <<>>
            /\ response' =
                 [Response(200, "application/json") EXCEPT !.legend_url = legend_url]
            /\ legend_seen' =
                 [legend_seen EXCEPT ![layer_name] =
                     Append(@, [url |-> legend_url, apart |-> apart])]
            /\ UNCHANGED <<upstream, published>>

\* GET /test (lines 495-513): a fixed page.
test_page ==
    /\ request' = Request("/test")
    /\ result' = NotCalled
    /\ outbound' = <<>>
    /\ response' = Response(200, "text/html")
    /\ UNCHANGED <<upstream, published, legend_seen>>

Next == index \/ api_layers

Spec == Init /\ [][Next]_vars

NextRoutes == index \/ api_layers \/ api_capabilities \/ api_legend \/ test_page

SpecRoutes == InitRoutes /\ [][NextRoutes]_vars

\* ------------------------------------------------------------ properties

\* The words of the claims, stated on what the endpoint publishes.
HasColon(s) == \E i \in DOMAIN s : s[i] = ":"
HasText(v) == v # Absent /\ v # None /\ v # <<>>
UnqualifiedName(e) == HasText(e.Name) /\ ~HasColon(e.Name)
Eligible == SelectSeq(published, UnqualifiedName)
Named == { i \in DOMAIN published : HasText(published[i].Name) }
UpstreamOK ==
    /\ upstream.kind = "response"
    /\ upstream.status_code = 200
    /\ upstream.content.kind = "xml"
Called == result.kind # "none"
Names(ds) == [i \in DOMAIN ds |-> ds[i].name]
FallbackNames ==
    << EMODNET_LAYERS[1].name, EMODNET_LAYERS[2].name, EMODNET_LAYERS[3].name,
       EMODNET_LAYERS[4].name, EMODNET_LAYERS[5].name, EMODNET_LAYERS[6].name >>

\* C1: whatever the GetCapabilities call does, get_available_layers returns
\* a sequence with at least one and at most 20 entries.
C1_NonEmptyAtMost20 ==
    Called =>
        /\ result.kind = "return"
        /\ Len(result.value) >= 1
        /\ Len(result.value) <= 20

\* A healthy endpoint publishing more than 20 unqualified layers was resolved.
C1_Witness ==
    /\ Called
    /\ UpstreamOK
    /\ Len(Eligible) > 20
    /\ Len(result.value) = 20

\* C2: when the call raises, the status is not 200 or the body is no XML,
\* get_available_layers raises nothing and returns exactly the six entries of
\* EMODNET_LAYERS, in order.
C2_FailureGivesFallback ==
    (Called /\ ~UpstreamOK) =>
        /\ result.kind = "return"
        /\ result.value = EMODNET_LAYERS
        /\ Len(result.value) = 6
        /\ Names(result.value) = FallbackNames

\* A 500 whose body is a good document with unqualified layers ended in the
\* fallback.
C2_Witness ==
    /\ Called
    /\ upstream.kind = "response"
    /\ upstream.status_code = 500
    /\ upstream.content.kind = "xml"
    /\ Eligible # <<>>
    /\ result.value = EMODNET_LAYERS

\* C3: for a 200 document with at least one unqualified layer name, the names
\* returned are the first 20 unqualified names in document order.
C3_FirstTwentyInOrder ==
    (Called /\ UpstreamOK /\ Eligible # <<>>) =>
        /\ result.kind = "return"
        /\ Len(result.value) = (IF Len(Eligible) < 20 THEN Len(Eligible) ELSE 20)
        /\ \A i \in DOMAIN result.value : result.value[i].name = Eligible[i].Name

\* A qualified layer stands among the first 20 of more than 20 layers, and 20
\* unqualified ones are returned.
C3_Witness ==
    /\ Called
    /\ UpstreamOK
    /\ Len(Eligible) >= 20
    /\ \E i \in 1..20 : HasText(published[i].Name) /\ HasColon(published[i].Name)
    /\ Len(result.value) = 20
    /\ \E i, j \in DOMAIN result.value : result.value[i].name # result.value[j].name

\* C4: for a 200 document in which every named layer has a qualified name,
\* get_available_layers returns EMODNET_LAYERS, not an empty sequence.
C4_OnlyQualifiedGivesFallback ==
    (Called /\ UpstreamOK /\ Named # {} /\ Eligible = <<>>) =>
        /\ result.kind = "return"
        /\ result.value # <<>>
        /\ result.value = EMODNET_LAYERS

\* Every layer of the document, the container too, has a qualified name.
C4_Witness ==
    /\ Called
    /\ UpstreamOK
    /\ Len(published) >= 3
    /\ \A i \in DOMAIN published :
         HasText(published[i].Name) /\ HasColon(published[i].Name)
    /\ result.value = EMODNET_LAYERS

\* C5: every descriptor returned, live or fallback, has a non-empty name with
\* no colon, and a layer with no Name or an empty Name gives no descriptor.
C5_NamesNonEmptyUnqualified ==
    Called =>
        /\ \A i \in DOMAIN result.value :
             /\ result.value[i].name # None
             /\ result.value[i].name # <<>>
             /\ ~HasColon(result.value[i].name)
        /\ (UpstreamOK /\ Eligible # <<>>) => Len(result.value) <= Cardinality(Named)
        /\ (UpstreamOK /\ Named = {}) => result.value = EMODNET_LAYERS

\* A document with a layer without Name, one with an empty Name, a qualified
\* one and an unqualified one gave a live result.
C5_Witness ==
    /\ Called
    /\ UpstreamOK
    /\ \E i, j, k \in DOMAIN published :
         /\ published[i].Name = Absent
         /\ published[j].Name = None
         /\ HasColon(published[k].Name)
    /\ Len(Eligible) = 1
    /\ Names(result.value) = << Eligible[1].Name >>

\* C6: GET /api/capabilities returns the raw upstream document as XML when the
\* fetch succeeds, and a JSON error object with a message when it fails, where
\* failing covers a raising call and a status other than 200.
C6_PassthroughOrJsonError ==
    request.route = "/api/capabilities" =>
        IF upstream.kind = "response" /\ upstream.status_code = 200
        THEN /\ response.content_type = "text/xml"
             /\ response.content = upstream.content
        ELSE /\ response.content_type = "application/json"
             /\ response.error # None

\* The fixed query string of the legend request, around the layer name.
LegendQueryHead ==
    <<"?","s","e","r","v","i","c","e","=","W","M","S","&","v","e","r","s","i","o","n","=","1",".","1",".","0","&","r","e","q","u","e","s","t","=","G","e","t","L","e","g","e","n","d","G","r","a","p","h","i","c","&","l","a","y","e","r","=">>
LegendQueryTail ==
    <<"&","f","o","r","m","a","t","=","i","m","a","g","e","/","p","n","g">>
ExpectedLegendUrl(n) == WMS_BASE_URL \o LegendQueryHead \o n \o LegendQueryTail

\* C7: the legend URL is the endpoint base, then
\* '?service=WMS&version=1.1.0&request=GetLegendGraphic&layer=<name>&format=image/png'
\* with the name verbatim, and every call for one name gives the same URL,
\* whatever was requested in between.
C7_LegendUrlOfNameOnly ==
    /\ \A n \in LegendNames : \A i \in DOMAIN legend_seen[n] :
         legend_seen[n][i].url = ExpectedLegendUrl(n)
    /\ request.route = "/api/legend" =>
         response.legend_url = ExpectedLegendUrl(request.layer_name)

\* Two legend requests for one name, another request handled between them.
C7_Witness ==
    \E n \in LegendNames :
        /\ Len(legend_seen[n]) >= 2
        /\ legend_seen[n][2].apart
        /\ legend_seen[n][1].url = legend_seen[n][2].url

\* C8: /, /api/layers and /api/capabilities each make exactly one
\* GetCapabilities call whatever it does, /api/legend makes none, and no
\* request makes more than one outbound call.
C8_OneCallNoRetry ==
    /\ Len(outbound) <= 1
    /\ request.route \in { "/", "/api/layers", "/api/capabilities" } =>
         /\ Len(outbound) = 1
         /\ outbound[1].request = "GetCapabilities"
         /\ outbound[1].url = WMS_BASE_URL
    /\ request.route = "/api/legend" => outbound = <<>>

\* The resolver's one call raised, and it was not made again.
C8_Witness ==
    /\ request.route = "/api/layers"
    /\ upstream.kind = "raise"
    /\ Len(outbound) = 1

\* C9: every descriptor's description is a str, never None: the layer's
\* abstract text when it has one, '' otherwise.
C9_DescriptionIsString ==
    Called =>
        \A i \in DOMAIN result.value :
            /\ result.value[i].description # None
            /\ (UpstreamOK /\ Eligible # <<>>) =>
                 result.value[i].description =
                     (IF HasText(Eligible[i].Abstract)
                      THEN Eligible[i].Abstract ELSE <<>>)

\* C10: a descriptor built from a live document has the layer's own Title
\* text as title when there is such text, its name otherwise, so no title is
\* empty.
C10_TitleOrName ==
    (Called /\ UpstreamOK /\ Eligible # <<>>) =>
        \A i \in DOMAIN result.value :
            /\ result.value[i].title =
                 (IF HasText(Eligible[i].Title)
                  THEN Eligible[i].Title ELSE Eligible[i].Name)
            /\ result.value[i].title # None
            /\ result.value[i].title # <<>>

\* Of three layers returned, one has a Title with text, one a Title without
\* text and one no Title.
C10_Witness ==
    /\ Called
    /\ UpstreamOK
    /\ \E i, j, k \in DOMAIN result.value :
         /\ i \in DOMAIN Eligible /\ j \in DOMAIN Eligible /\ k \in DOMAIN Eligible
         /\ HasText(Eligible[i].Title) /\ result.value[i].title = Eligible[i].Title
         /\ Eligible[j].Title = None /\ result.value[j].title = Eligible[j].Name
         /\ Eligible[k].Title = Absent /\ result.value[k].title = Eligible[k].Name

\* C11: the name identifies a descriptor within the returned sequence: for
\* every document, also one in which two Layer elements carry the same
\* unqualified name, no two entries returned have the same name.
C11_NamesUnique ==
    Called =>
        \A i, j \in DOMAIN result.value :
            result.value[i].name = result.value[j].name => i = j

====
